---- MODULE Spec2Model ----
(***************************************************************************)
(* The Slack Terraform provider: the conversation (channel) resource and   *)
(* the usergroup resource as state machines over the remote workspace and  *)
(* the tracked Terraform state.  Each action is one whole handler (Create, *)
(* Read, Update, Delete): the sequential chain of remote calls it issues,  *)
(* its early returns on a failed call, and the state it writes back.       *)
(***************************************************************************)
EXTENDS Integers, Sequences, FiniteSets, TLC

(***************************************************************************)
(* Bounds of the model.                                                    *)
(***************************************************************************)
\* Number of users of the workspace; user 1 owns the token.
NumUsers == 3
\* The position (1..MaxFault) of the remote call of one handler run that the
\* remote fails with a transport error; 0: no call fails.
MaxFault == 4

Users == 1..NumUsers

(***************************************************************************)
(* Framework values: types.String and types.Set are null or hold a value.  *)
(***************************************************************************)
Null == "<null>"
IsNull(s) == s = Null
ValueString(s) == IF s = Null THEN "" ELSE s

SetNull == [null |-> TRUE, elems |-> {}]
SetValue(S) == [null |-> FALSE, elems |-> S]

RECURSIVE ElementsAs(_)
\* The elements of a set value as a slice (a null set gives the nil slice); the
\* slice's order is a fixed one.
ElementsAs(v) ==
    IF v.elems = {} THEN <<>>
    ELSE LET x == CHOOSE y \in v.elems : TRUE
         IN <<x>> \o ElementsAs([v EXCEPT !.elems = @ \ {x}])

RECURSIVE contains(_, _)
contains(s, e) ==
    IF s = <<>> THEN FALSE
    ELSE IF Head(s) = e THEN TRUE ELSE contains(Tail(s), e)

Range(s) == {s[i] : i \in 1..Len(s)}

errChannelNotFound == "channel_not_found"
errAlreadyArchived == "already_archived"
errNotArchived == "not_archived"
errTransport == "error"

\* The user the provider's token belongs to: the creator of what it creates.
TokenUser == 1

ChannelId == "C1"

(***************************************************************************)
(* State.                                                                  *)
(***************************************************************************)
VARIABLES
    typeName,   \* the resource type the followed resource instance is of
    rc,         \* the remote channel
    rg,         \* the remote usergroup
    tf,         \* the tracked state of the resource instance
    last,       \* the last handler run: its plan, prior state, calls, outcome
    declared,   \* users that were ever in a planned permanent_members set
    provider,   \* the provider: its configuration and the client it made
    ws          \* the users of the remote workspace, as the platform lists them

vars == <<typeName, rc, rg, tf, last, declared, provider, ws>>

NoChannel == [exists |-> FALSE]
NoGroup == [exists |-> FALSE]
NoResource == [tracked |-> FALSE]
NoPlan == [none |-> TRUE]

\* No handler is running and the last response has been taken.
NoRun == [op |-> "None", plan |-> NoPlan, prior |-> NoResource,
          calls |-> <<>>, err |-> FALSE]
Idle == last.op = "None"

(***************************************************************************)
(* The remote workspace (the Slack Web API behind slack.Client).  Every    *)
(* operation gives the new remote state and the error ("" for none).       *)
(***************************************************************************)
Ok(r) == [rc |-> r, err |-> ""]
Fail(r, e) == [rc |-> r, err |-> e]

RemoteCreateConversation(r, arg) ==
    IF r.exists THEN Fail(r, "name_taken")
    ELSE Ok([exists |-> TRUE, id |-> ChannelId, name |-> arg.name,
             topic |-> "", purpose |-> "", archived |-> FALSE,
             private |-> arg.private, creator |-> TokenUser,
             members |-> {TokenUser}])

RemoteConversation(api, r, arg) ==
    IF api = "CreateConversation" THEN RemoteCreateConversation(r, arg)
    ELSE IF ~r.exists THEN Fail(r, errChannelNotFound)
    ELSE CASE api = "SetTopicOfConversation" -> Ok([r EXCEPT !.topic = arg])
           [] api = "SetPurposeOfConversation" -> Ok([r EXCEPT !.purpose = arg])
           [] api = "RenameConversation" -> Ok([r EXCEPT !.name = arg])
           [] api = "InviteUsersToConversation" ->
                Ok([r EXCEPT !.members = @ \cup {arg}])
           [] api = "KickUserFromConversation" ->
                Ok([r EXCEPT !.members = @ \ {arg}])
           [] api = "ArchiveConversation" ->
                IF r.archived THEN Fail(r, errAlreadyArchived)
                ELSE Ok([r EXCEPT !.archived = TRUE])
           [] api = "UnArchiveConversation" ->
                IF ~r.archived THEN Fail(r, errNotArchived)
                ELSE Ok([r EXCEPT !.archived = FALSE])
           [] OTHER -> Ok(r)   \* GetConversationInfo, GetUsersInConversation

GroupId == "S1"

\* The handle the remote gives a group created without one.
GeneratedHandle == "auto"

RemoteCreateUserGroup(r, arg) ==
    IF r.exists THEN Fail(r, "name_already_exists")
    ELSE Ok([exists |-> TRUE, id |-> GroupId, name |-> arg.name,
             handle |-> IF arg.handle = "" THEN GeneratedHandle ELSE arg.handle,
             description |-> arg.description,
             channels |-> Range(arg.channels), users |-> {},
             enabled |-> TRUE])

RemoteUsergroup(api, r, arg) ==
    IF api = "CreateUserGroup" THEN RemoteCreateUserGroup(r, arg)
    ELSE IF api = "GetUserGroups" THEN Ok(r)
    ELSE IF ~r.exists THEN Fail(r, "no_such_subteam")
    ELSE CASE api = "UpdateUserGroup" ->
                Ok([r EXCEPT
                      !.name = arg.name,
                      !.handle = IF arg.handle = Null THEN @ ELSE arg.handle,
                      !.description =
                          IF arg.description = Null THEN @ ELSE arg.description,
                      !.channels =
                          IF arg.channels.null THEN @ ELSE arg.channels.elems])
           [] api = "UpdateUserGroupMembers" -> Ok([r EXCEPT !.users = Range(arg)])
           [] api = "DisableUserGroup" ->
                IF ~r.enabled THEN Fail(r, "already_disabled")
                ELSE Ok([r EXCEPT !.enabled = FALSE])

\* The users of the workspace: the list of all of them, and the look-up of one
\* by the email.
RemoteUsers(api, r, arg) ==
    IF api = "GetUserByEmail" /\ ~\E i \in 1..Len(r) : r[i].email = arg
    THEN Fail(r, "users_not_found")
    ELSE Ok(r)

UserApis == {"GetUsers", "GetUserByEmail"}

UsergroupApis ==
    {"CreateUserGroup", "GetUserGroups", "UpdateUserGroup",
     "UpdateUserGroupMembers", "DisableUserGroup"}

Remote(api, r, arg) ==
    IF api \in UsergroupApis THEN RemoteUsergroup(api, r, arg)
    ELSE IF api \in UserApis THEN RemoteUsers(api, r, arg)
    ELSE RemoteConversation(api, r, arg)

(***************************************************************************)
(* One handler run.  A handler issues its remote calls one after the other *)
(* and returns at the first one that fails; `c` is the run so far: the     *)
(* remote state, the calls issued with their errors, whether an error      *)
(* diagnostic was added (err) and whether the handler has returned (done). *)
(***************************************************************************)
Start(r, fault) ==
    [rc |-> r, calls |-> <<>>, err |-> FALSE, done |-> FALSE, fault |-> fault]

\* A call of a handler: `benign` are the errors the handler goes on after,
\* `quiet` the errors it returns on without a diagnostic.
Call(api, arg) == [api |-> api, arg |-> arg, benign |-> {}, quiet |-> {}]
CallIf(cond, call) == IF cond THEN <<call>> ELSE <<>>

\* Step of a handler that goes on to its next call after a failed one.
Step_GoesOn(c, call) ==
    LET n == Len(c.calls) + 1
        res == IF n = c.fault THEN Fail(c.rc, errTransport)
               ELSE Remote(call.api, c.rc, call.arg)
        failed == res.err # "" /\ res.err \notin call.benign
    IN [rc |-> res.rc,
        calls |-> Append(c.calls,
                         [api |-> call.api, arg |-> call.arg, err |-> res.err]),
        err |-> c.err \/ (failed /\ res.err \notin call.quiet),
        done |-> FALSE,
        fault |-> c.fault]

\* The run after its next call.
Step(c, call) ==
    LET n == Len(c.calls) + 1
        res == IF n = c.fault THEN Fail(c.rc, errTransport)
               ELSE Remote(call.api, c.rc, call.arg)
        failed == res.err # "" /\ res.err \notin call.benign
    IN [rc |-> res.rc,
        calls |-> Append(c.calls,
                         [api |-> call.api, arg |-> call.arg, err |-> res.err]),
        err |-> (failed /\ res.err \notin call.quiet),
        done |-> failed,
        fault |-> c.fault]

RECURSIVE RunFrom(_, _, _)
RunFrom(c, calls, i) ==
    IF i > Len(calls) \/ c.done THEN c
    ELSE CHOOSE end \in {RunFrom(n, calls, i + 1) : n \in {Step(c, calls[i])}} : TRUE

\* The fault hits one of the calls of the handler, or there is none.
Hits(fault, calls) == fault <= Len(calls)

\* The run of a handler whose calls are `calls`, in this order.
Run(r, fault, calls) ==
    CHOOSE end \in {RunFrom(c, s, 1) : c \in {Start(r, fault)}, s \in {calls}} : TRUE

\* What another actor of the workspace does to the remote: one call of the
\* platform's API, of no effect when the platform refuses it.
Meddle(r, other) == Remote(other.api, r, other.arg).rc

\* The first read call of a handler's calls: where its terminal read begins.
TerminalRead(calls) ==
    CHOOSE k \in 1..Len(calls) :
        /\ calls[k].api \in {"GetConversationInfo", "GetUsersInConversation",
                             "GetUserGroups"}
        /\ \A j \in 1..(k - 1) :
              calls[j].api \notin {"GetConversationInfo", "GetUsersInConversation",
                                   "GetUserGroups"}

\* The run of a handler, no call failing by transport, in which another actor
\* acts after the handler's last mutation and before its terminal read.
RacedRun(r, calls, other) ==
    LET k == TerminalRead(calls)
        c == Run(r, 0, SubSeq(calls, 1, k - 1))
    IN  IF c.done THEN c
        ELSE RunFrom([c EXCEPT !.rc = Meddle(c.rc, other)], calls, k)

\* types.SetValueFrom of a slice that was declared empty and appended to: the
\* framework turns a nil slice into a null set.
SetValueFromAppended(s) == IF s = <<>> THEN SetNull ELSE SetValue(Range(s))

(***************************************************************************)
(* The conversation resource.                                              *)
(***************************************************************************)
\* A plan holds the attributes of ConversationResourceModel the configuration
\* (or a schema default) gives.  id and creator come from the remote; the
\* read-only created, is_shared, is_ext_shared, is_org_shared and is_general
\* are copied from the remote, read by no handler, and left out.
Record(data, id, creator) ==
    [tracked |-> TRUE, id |-> id, creator |-> creator] @@ data

\* Create, "Handle permanent members": the users Create invites.
CreateInvitees(data) ==
    IF ~data.permanent_members.null /\ Cardinality(data.permanent_members.elems) > 0
    THEN ElementsAs(data.permanent_members)
    ELSE <<>>

\* "for _, userID := range users": one call for each.
ForEach(api, users) == [i \in 1..Len(users) |-> Call(api, users[i])]

\* "Filter out the creator from the members list" of Read and Update.
FilterCreator(members, creator) ==
    SelectSeq(members, LAMBDA member : member # creator)

ConvCreateCalls(plan) ==
    <<Call("CreateConversation",
           [name |-> ValueString(plan.name), private |-> plan.is_private])>>
    \o CallIf(~IsNull(plan.topic) /\ ValueString(plan.topic) # "",
              Call("SetTopicOfConversation", ValueString(plan.topic)))
    \o CallIf(~IsNull(plan.purpose) /\ ValueString(plan.purpose) # "",
              Call("SetPurposeOfConversation", ValueString(plan.purpose)))
    \o ForEach("InviteUsersToConversation", CreateInvitees(plan))

\* The record Create sets: the plan, with the "basic attributes" of the
\* channel the create call returned.
ConvCreateData(plan, channel) ==
    Record([plan EXCEPT !.name = channel.name,
                        !.is_private = channel.private,
                        !.is_archived = channel.archived],
           channel.id, channel.creator)

ConvCreate(plan, fault) ==
    /\ typeName = "slack_conversation"
    /\ Idle
    /\ ~tf.tracked
    /\ rc.exists => ValueString(plan.name) = rc.name
    /\ Hits(fault, ConvCreateCalls(plan))
    /\ \E c \in {Run(rc, fault, ConvCreateCalls(plan))} :
         \* the channel as the create call (the first call) returned it
         LET channel == RemoteCreateConversation(rc,
                            [name |-> ValueString(plan.name),
                             private |-> plan.is_private]).rc
         IN /\ rc' = c.rc
            /\ tf' = IF c.err THEN tf ELSE ConvCreateData(plan, channel)
            /\ last' = [op |-> "Create", plan |-> plan, prior |-> tf,
                        calls |-> c.calls, err |-> c.err]
    /\ declared' = declared \cup plan.permanent_members.elems
    /\ UNCHANGED <<provider, ws, typeName, rg>>

\* The members a read tracks: everybody in the channel but its creator.
ObservedMembers(channel) ==
    SetValueFromAppended(FilterCreator(ElementsAs(SetValue(channel.members)),
                                       channel.creator))

\* ConvReadCalls of a Read that reports "channel_not_found" as any other error.
ConvReadCalls_NotFoundIsError(state) ==
    <<Call("GetConversationInfo", state.id)>>
    \o CallIf(~state.permanent_members.null,
              Call("GetUsersInConversation", state.id))

ConvReadCalls(state) ==
    <<[Call("GetConversationInfo", state.id) EXCEPT !.quiet = {errChannelNotFound}]>>
    \o CallIf(~state.permanent_members.null,
              Call("GetUsersInConversation", state.id))

ConvReadData(state, channel) ==
    [state EXCEPT !.name = channel.name,
                  !.topic = channel.topic,
                  !.purpose = channel.purpose,
                  !.is_archived = channel.archived,
                  !.is_private = channel.private,
                  !.creator = channel.creator,
                  !.permanent_members =
                      IF @.null THEN @ ELSE ObservedMembers(channel)]

ConvRead(fault) ==
    /\ typeName = "slack_conversation"
    /\ Idle
    /\ tf.tracked
    /\ Hits(fault, ConvReadCalls(tf))
    /\ \E c \in {Run(rc, fault, ConvReadCalls(tf))} :
          /\ rc' = c.rc
          /\ tf' = IF c.err THEN tf
                   ELSE IF c.done THEN NoResource   \* RemoveResource
                   ELSE ConvReadData(tf, c.rc)
          /\ last' = [op |-> "Read", plan |-> NoPlan, prior |-> tf,
                      calls |-> c.calls, err |-> c.err]
    /\ UNCHANGED <<provider, ws, typeName, rg, declared>>

\* Update, "Find users to add (in new but not in old)".
ToInvite(newMembers, oldMembers) ==
    SelectSeq(newMembers, LAMBDA userID : ~contains(oldMembers, userID))

\* ToKick without the check of the removal policy.
ToKick_AnyPolicy(action, newMembers, oldMembers) ==
    SelectSeq(oldMembers, LAMBDA userID : ~contains(newMembers, userID))

\* Update, "Find users to remove (in old but not in new)".
ToKick(action, newMembers, oldMembers) ==
    IF action = "kick"
    THEN SelectSeq(oldMembers, LAMBDA userID : ~contains(newMembers, userID))
    ELSE <<>>

\* Update, "Update permanent members if changed".
MembersChanged(data, state) == data.permanent_members # state.permanent_members

\* Update, the calls of "Update permanent members if changed".
MemberCalls(data, state) ==
    LET newMembers == ElementsAs(data.permanent_members)
        oldMembers == ElementsAs(state.permanent_members)
    IN  IF MembersChanged(data, state)
        THEN ForEach("InviteUsersToConversation", ToInvite(newMembers, oldMembers))
             \o ForEach("KickUserFromConversation",
                        ToKick(ValueString(data.action_on_update_permanent_members),
                               newMembers, oldMembers))
        ELSE <<>>

\* ArchiveCalls of an Update that takes every answer but success as a failure.
ArchiveCalls_Strict(data, state) ==
    IF data.is_archived # state.is_archived
    THEN IF data.is_archived
         THEN <<Call("ArchiveConversation", state.id)>>
         ELSE <<Call("UnArchiveConversation", state.id)>>
    ELSE <<>>

\* Update, "Update archived status if changed".
ArchiveCalls(data, state) ==
    IF data.is_archived # state.is_archived
    THEN IF data.is_archived
         THEN <<[Call("ArchiveConversation", state.id)
                    EXCEPT !.benign = {errAlreadyArchived}]>>
         ELSE <<[Call("UnArchiveConversation", state.id)
                    EXCEPT !.benign = {errNotArchived}]>>
    ELSE <<>>

ConvUpdateCalls(plan, state) ==
    CallIf(plan.name # state.name,
           Call("RenameConversation", ValueString(plan.name)))
    \o CallIf(~IsNull(plan.topic) /\ plan.topic # state.topic,
              Call("SetTopicOfConversation", ValueString(plan.topic)))
    \o CallIf(~IsNull(plan.purpose) /\ plan.purpose # state.purpose,
              Call("SetPurposeOfConversation", ValueString(plan.purpose)))
    \o ArchiveCalls(plan, state)
    \o MemberCalls(plan, state)
    \o <<Call("GetConversationInfo", state.id)>>
    \o CallIf(~plan.permanent_members.null,
              Call("GetUsersInConversation", state.id))

\* ConvUpdateData of an Update that trusts its plan for the topic and the
\* purpose it has just set.
ConvUpdateData_TrustsPlan(plan, state, channel) ==
    [Record(plan, state.id, state.creator)
        EXCEPT !.name = channel.name,
               !.is_archived = channel.archived,
               !.permanent_members =
                   IF @.null THEN @ ELSE ObservedMembers(channel)]

\* The record Update sets: the plan (id and creator as in the prior state),
\* with the fields refreshed from the terminal read.
ConvUpdateData(plan, state, channel) ==
    [Record(plan, state.id, state.creator)
        EXCEPT !.name = channel.name,
               !.topic = channel.topic,
               !.purpose = channel.purpose,
               !.is_archived = channel.archived,
               !.permanent_members =
                   IF @.null THEN @ ELSE ObservedMembers(channel)]

ConvUpdate(plan, fault) ==
    /\ typeName = "slack_conversation"
    /\ Idle
    /\ tf.tracked
    /\ Hits(fault, ConvUpdateCalls(plan, tf))
    /\ \E c \in {Run(rc, fault, ConvUpdateCalls(plan, tf))} :
          /\ rc' = c.rc
          /\ tf' = IF c.err THEN tf ELSE ConvUpdateData(plan, tf, c.rc)
          /\ last' = [op |-> "Update", plan |-> plan, prior |-> tf,
                      calls |-> c.calls, err |-> c.err]
    /\ declared' = declared \cup plan.permanent_members.elems
    /\ UNCHANGED <<provider, ws, typeName, rg>>

\* ConvDeleteCalls of a Delete that archives under every policy.
ConvDeleteCalls_AnyPolicy(state) ==
    <<[Call("ArchiveConversation", state.id)
          EXCEPT !.benign = {errAlreadyArchived, errChannelNotFound}]>>

\* ConvDeleteCalls of a Delete that goes on after "already_archived" only.
ConvDeleteCalls_OnlyArchived(state) ==
    CallIf(ValueString(state.action_on_destroy) = "archive",
           [Call("ArchiveConversation", state.id)
               EXCEPT !.benign = {errAlreadyArchived}])

\* Delete: archive the channel if the policy says so.
ConvDeleteCalls(state) ==
    CallIf(ValueString(state.action_on_destroy) = "archive",
           [Call("ArchiveConversation", state.id)
               EXCEPT !.benign = {errAlreadyArchived, errChannelNotFound}])

ConvDelete(fault) ==
    /\ typeName = "slack_conversation"
    /\ Idle
    /\ tf.tracked
    /\ Hits(fault, ConvDeleteCalls(tf))
    /\ \E c \in {Run(rc, fault, ConvDeleteCalls(tf))} :
          /\ rc' = c.rc
          /\ tf' = IF c.err THEN tf ELSE NoResource
          /\ last' = [op |-> "Delete", plan |-> NoPlan, prior |-> tf,
                      calls |-> c.calls, err |-> c.err]
    /\ UNCHANGED <<provider, ws, typeName, rg, declared>>

\* Update, with another actor acting before the terminal read.
ConvUpdateRaced(plan, other) ==
    /\ typeName = "slack_conversation"
    /\ Idle
    /\ tf.tracked
    /\ \E c \in {RacedRun(rc, ConvUpdateCalls(plan, tf), other)} :
          /\ rc' = c.rc
          /\ tf' = IF c.err THEN tf ELSE ConvUpdateData(plan, tf, c.rc)
          /\ last' = [op |-> "Update", plan |-> plan, prior |-> tf,
                      calls |-> c.calls, err |-> c.err]
    /\ declared' = declared \cup plan.permanent_members.elems
    /\ UNCHANGED <<provider, ws, typeName, rg>>

\* The last run changed the remote channel and then failed.
Interrupted ==
    /\ last.op \in {"Create", "Update"}
    /\ last.err
    /\ \E i \in 1..Len(last.calls) :
          /\ last.calls[i].err = ""
          /\ last.calls[i].api \notin {"GetConversationInfo",
                                       "GetUsersInConversation"}

\* The next reconciliation pass after an interrupted Create or Update: a Read
\* of what is tracked, then the plan of the interrupted run applied again (by
\* Update when the Read leaves a tracked state, by Create otherwise), no call
\* failing by transport.  `before` is the remote channel the pass started on.
ConvReapply ==
    /\ typeName = "slack_conversation"
    /\ Interrupted
    /\ LET plan == last.plan
           read == IF tf.tracked THEN Run(rc, 0, ConvReadCalls(tf))
                   ELSE Start(rc, 0)
           state == IF ~tf.tracked \/ read.err THEN tf
                    ELSE IF read.done THEN NoResource
                    ELSE ConvReadData(tf, read.rc)
           calls == IF state.tracked THEN ConvUpdateCalls(plan, state)
                    ELSE ConvCreateCalls(plan)
           c == Run(rc, 0, calls)
           channel == RemoteCreateConversation(rc,
                          [name |-> ValueString(plan.name),
                           private |-> plan.is_private]).rc
       IN /\ rc' = c.rc
          /\ tf' = IF c.err THEN state
                   ELSE IF state.tracked THEN ConvUpdateData(plan, state, c.rc)
                   ELSE ConvCreateData(plan, channel)
          /\ last' = [op |-> IF state.tracked THEN "Update" ELSE "Create",
                      plan |-> plan, prior |-> state,
                      calls |-> c.calls, err |-> c.err, before |-> rc]
    /\ UNCHANGED <<provider, ws, typeName, rg, declared>>

\* Another actor of the workspace: a user joins the channel by other means.
ExternalJoin(u) ==
    /\ typeName = "slack_conversation"
    /\ Idle
    /\ rc.exists /\ ~rc.archived
    /\ u \notin rc.members
    /\ rc' = [rc EXCEPT !.members = @ \cup {u}]
    /\ UNCHANGED <<provider, ws, typeName, rg, tf, last, declared>>

\* Another actor of the workspace archives or unarchives the channel.
ExternalArchive(archived) ==
    /\ typeName = "slack_conversation"
    /\ Idle
    /\ rc.exists /\ rc.archived # archived
    /\ rc' = [rc EXCEPT !.archived = archived]
    /\ UNCHANGED <<provider, ws, typeName, rg, tf, last, declared>>

\* Another actor of the workspace deletes the channel.
ExternalDelete ==
    /\ typeName = "slack_conversation"
    /\ Idle
    /\ rc.exists
    /\ rc' = NoChannel
    /\ UNCHANGED <<provider, ws, typeName, rg, tf, last, declared>>

(***************************************************************************)
(* The usergroup resource.                                                 *)
(***************************************************************************)
\* strings.Join(users, ","): the list the member-replace call carries.
Join(users) == users

\* "for _, ug := range userGroups { if ug.ID == id ...": the enumeration holds
\* the groups that are not disabled.
FindGroup(r, id) == r.exists /\ r.enabled /\ r.id = id

\* Refreshed that leaves the users as they are in the plan or the state.
Refreshed_KeepUsers(data, ug) ==
    [data EXCEPT !.name = ug.name,
                 !.handle = ug.handle,
                 !.description = ug.description,
                 !.channels = SetValue(ug.channels)]

\* The fields a handler refreshes from the group the enumeration holds.
Refreshed(data, ug) ==
    [data EXCEPT !.name = ug.name,
                 !.handle = ug.handle,
                 !.description = ug.description,
                 !.channels = SetValue(ug.channels),
                 !.users = SetValue(ug.users)]

\* CreateSetsMembers that sets the members only of a group with channels.
CreateSetsMembers_WithChannels(data) ==
    ~data.users.null /\ Len(ElementsAs(data.users)) > 0 /\ ~data.channels.null

\* CreateSetsMembers without the check of len(users) > 0.
CreateSetsMembers_AnySet(data) == ~data.users.null

\* Create, "Update members if specified".
CreateSetsMembers(data) ==
    ~data.users.null /\ Len(ElementsAs(data.users)) > 0

UgCreateCalls(plan) ==
    <<Call("CreateUserGroup",
           [name |-> ValueString(plan.name),
            description |-> ValueString(plan.description),
            handle |-> ValueString(plan.handle),
            channels |-> ElementsAs(plan.channels)])>>
    \o CallIf(CreateSetsMembers(plan),
              Call("UpdateUserGroupMembers", Join(ElementsAs(plan.users))))
    \o <<Call("GetUserGroups", TRUE)>>

UgCreate(plan, fault) ==
    /\ typeName = "slack_usergroup"
    /\ Idle
    /\ ~tf.tracked
    /\ rg.exists => ValueString(plan.name) = rg.name
    /\ Hits(fault, UgCreateCalls(plan))
    /\ \E c \in {Run(rg, fault, UgCreateCalls(plan))} :
         LET failed == c.err \/ ~FindGroup(c.rc, GroupId)
         IN /\ rg' = c.rc
            /\ tf' = IF failed THEN tf
                     ELSE Refreshed([tracked |-> TRUE, id |-> GroupId] @@ plan, c.rc)
            /\ last' = [op |-> "Create", plan |-> plan, prior |-> tf,
                        calls |-> c.calls, err |-> failed]
    /\ UNCHANGED <<provider, ws, typeName, rc, declared>>

UgReadCalls == <<Call("GetUserGroups", TRUE)>>

UgRead(fault) ==
    /\ typeName = "slack_usergroup"
    /\ Idle
    /\ tf.tracked
    /\ Hits(fault, UgReadCalls)
    /\ \E c \in {Run(rg, fault, UgReadCalls)} :
          /\ rg' = c.rc
          /\ tf' = IF c.err THEN tf
                   ELSE IF ~FindGroup(c.rc, tf.id) THEN NoResource
                   ELSE Refreshed(tf, c.rc)
          /\ last' = [op |-> "Read", plan |-> NoPlan, prior |-> tf,
                      calls |-> c.calls, err |-> c.err]
    /\ UNCHANGED <<provider, ws, typeName, rc, declared>>

\* needsUpdate of an Update that always issues the update call.
needsUpdate_Always(data, state) == TRUE

\* needsUpdate that leaves the channels out of the comparison.
needsUpdate_NoChannels(data, state) ==
    \/ data.name # state.name
    \/ data.handle # state.handle
    \/ data.description # state.description

\* Update, "Check if any field has changed".
needsUpdate(data, state) ==
    \/ data.name # state.name
    \/ data.handle # state.handle
    \/ data.description # state.description
    \/ data.channels # state.channels

\* Update, "Build options with all current values".
updateOptions(data) ==
    [name |-> ValueString(data.name),
     handle |-> IF ~IsNull(data.handle) /\ ValueString(data.handle) # ""
                THEN ValueString(data.handle) ELSE Null,
     description |->
         IF ~IsNull(data.description) /\ ValueString(data.description) # ""
         THEN ValueString(data.description) ELSE Null,
     channels |-> data.channels]

\* UpdateSetsMembers with the len(users) > 0 check of Create.
UpdateSetsMembers_NonEmpty(data, state) ==
    data.users # state.users /\ ~data.users.null /\ data.users.elems # {}

\* Update, "Update members only if changed".
UpdateSetsMembers(data, state) ==
    data.users # state.users /\ ~data.users.null

UgUpdateCalls(plan, state) ==
    CallIf(needsUpdate(plan, state), Call("UpdateUserGroup", updateOptions(plan)))
    \o CallIf(UpdateSetsMembers(plan, state),
              Call("UpdateUserGroupMembers", Join(ElementsAs(plan.users))))
    \o <<Call("GetUserGroups", TRUE)>>

UgUpdate(plan, fault) ==
    /\ typeName = "slack_usergroup"
    /\ Idle
    /\ tf.tracked
    /\ Hits(fault, UgUpdateCalls(plan, tf))
    /\ \E c \in {Run(rg, fault, UgUpdateCalls(plan, tf))} :
         LET failed == c.err \/ ~FindGroup(c.rc, tf.id)
         IN /\ rg' = c.rc
            /\ tf' = IF failed THEN tf
                     ELSE Refreshed([tracked |-> TRUE, id |-> tf.id] @@ plan, c.rc)
            /\ last' = [op |-> "Update", plan |-> plan, prior |-> tf,
                        calls |-> c.calls, err |-> failed]
    /\ UNCHANGED <<provider, ws, typeName, rc, declared>>

\* Update, with another actor acting before the terminal read.
UgUpdateRaced(plan, other) ==
    /\ typeName = "slack_usergroup"
    /\ Idle
    /\ tf.tracked
    /\ \E c \in {RacedRun(rg, UgUpdateCalls(plan, tf), other)} :
         LET failed == c.err \/ ~FindGroup(c.rc, tf.id)
         IN /\ rg' = c.rc
            /\ tf' = IF failed THEN tf
                     ELSE Refreshed([tracked |-> TRUE, id |-> tf.id] @@ plan, c.rc)
            /\ last' = [op |-> "Update", plan |-> plan, prior |-> tf,
                        calls |-> c.calls, err |-> failed]
    /\ UNCHANGED <<provider, ws, typeName, rc, declared>>

UgDeleteCalls(state) == <<Call("DisableUserGroup", state.id)>>

UgDelete(fault) ==
    /\ typeName = "slack_usergroup"
    /\ Idle
    /\ tf.tracked
    /\ Hits(fault, UgDeleteCalls(tf))
    /\ \E c \in {Run(rg, fault, UgDeleteCalls(tf))} :
          /\ rg' = c.rc
          /\ tf' = IF c.err THEN tf ELSE NoResource
          /\ last' = [op |-> "Delete", plan |-> NoPlan, prior |-> tf,
                      calls |-> c.calls, err |-> c.err]
    /\ UNCHANGED <<provider, ws, typeName, rc, declared>>

\* The state ImportStatePassthroughID makes: the id, every other attribute
\* null.
UgImported(id) ==
    [tracked |-> TRUE, id |-> id, name |-> Null, handle |-> Null,
     description |-> Null, channels |-> SetNull, users |-> SetNull]

\* ImportState, into a fresh state of the resource; the Read that follows an
\* import is the action UgRead.
UgImportState(id) ==
    /\ typeName = "slack_usergroup"
    /\ Idle
    /\ tf' = UgImported(id)
    /\ last' = [op |-> "Import", plan |-> NoPlan, prior |-> tf,
                calls |-> <<>>, err |-> FALSE]
    /\ UNCHANGED <<provider, ws, typeName, rc, rg, declared>>

\* Another actor of the workspace disables the usergroup.
ExternalDisable ==
    /\ typeName = "slack_usergroup"
    /\ Idle
    /\ rg.exists /\ rg.enabled
    /\ rg' = [rg EXCEPT !.enabled = FALSE]
    /\ UNCHANGED <<provider, ws, typeName, rc, tf, last, declared>>

\* The handler has returned: Terraform takes its response.
Return ==
    /\ ~Idle
    /\ last' = NoRun
    /\ UNCHANGED <<provider, ws, typeName, rc, rg, tf, declared>>

(***************************************************************************)
(* The provider: Configure makes the client the resources and the data     *)
(* sources call the platform with.  A token is a string.                   *)
(***************************************************************************)
\* No client: Configure has not run, or it returned with an error.
NoClient == "<nil>"

validPrefixes == <<"xoxb-", "xoxp-", "xoxa-", "xoxe-", "xoxr-", "xapp-">>

\* HasPrefix that leaves the last character of the prefix out.
HasPrefix_Short(token, prefix) ==
    /\ Len(token) >= Len(prefix) - 1
    /\ SubSeq(token, 1, Len(prefix) - 1) = SubSeq(prefix, 1, Len(prefix) - 1)

\* "len(token) >= len(prefix) && token[:len(prefix)] == prefix"
HasPrefix(token, prefix) ==
    /\ Len(token) >= Len(prefix)
    /\ SubSeq(token, 1, Len(prefix)) = prefix

\* validateSlackToken: the error it returns, "" for nil.
validateSlackToken(token) ==
    IF token = "" THEN "token cannot be empty"
    ELSE IF \E i \in 1..Len(validPrefixes) : HasPrefix(token, validPrefixes[i])
         THEN ""
         ELSE "invalid token format"

\* Configure, "Get token from configuration or environment variable": env is
\* os.Getenv("SLACK_TOKEN"), "" when the variable is not set.
TokenOf(data, env) ==
    IF ~IsNull(data.token) THEN ValueString(data.token) ELSE env

\* The provider before Configure.
NotConfigured ==
    [configured |-> FALSE, token |-> Null, env |-> "", client |-> NoClient,
     err |-> ""]

\* The provider after Configure: the client it made, or the error it added.
Configured(data, env) ==
    LET token == TokenOf(data, env)
    IN  [configured |-> TRUE, token |-> data.token, env |-> env,
         client |-> IF token # "" /\ validateSlackToken(token) = ""
                    THEN token ELSE NoClient,
         err |-> IF token = "" THEN "Missing Slack Token Configuration"
                 ELSE IF validateSlackToken(token) # "" THEN "Invalid Slack Token"
                 ELSE ""]

ProviderConfigure(data, env) ==
    /\ typeName \in {"data.slack_user", "data.slack_usergroup"}
    /\ Idle
    /\ ~provider.configured
    /\ provider' = Configured(data, env)
    /\ UNCHANGED <<typeName, rc, rg, tf, last, declared, ws>>

\* The provider the resources run with: configured from the environment.
ResourceProvider == Configured([token |-> Null], "xoxb-1")

\* The users of a workspace with these names, as the platform lists them.
Directory(names) ==
    [i \in 1..Len(names) |->
        [id |-> i, name |-> names[i], email |-> "e" \o ToString(i)]]

(***************************************************************************)
(* The user data source.  A run of a data source has, besides the fields   *)
(* of a run of a resource, the error it reported (diag).                   *)
(***************************************************************************)
\* stringvalidator.ExactlyOneOf on name, with the path of email: one of the two
\* attributes is set, and only one.
ExactlyOneOf(a, b) ==
    (IF IsNull(a) THEN 0 ELSE 1) + (IF IsNull(b) THEN 0 ELSE 1) = 1

NoUser == [nil |-> TRUE]

\* searchByName that takes the first of several users of the name.
searchByName_First(users, name) ==
    LET matchingUsers == SelectSeq(users, LAMBDA user : user.name = name)
    IN  IF Len(matchingUsers) < 1
        THEN [user |-> NoUser, err |-> "no results found"]
        ELSE [user |-> matchingUsers[1], err |-> ""]

\* searchByName, on the users the platform listed.
searchByName(users, name) ==
    LET matchingUsers == SelectSeq(users, LAMBDA user : user.name = name)
    IN  IF Len(matchingUsers) < 1
        THEN [user |-> NoUser, err |-> "no results found"]
        ELSE IF Len(matchingUsers) > 1
        THEN [user |-> NoUser, err |-> "multiple results found"]
        ELSE [user |-> matchingUsers[1], err |-> ""]

\* The user GetUserByEmailContext returns.
UserByEmail(users, email) ==
    LET matchingUsers == SelectSeq(users, LAMBDA user : user.email = email)
    IN  [user |-> matchingUsers[1], err |-> ""]

UserReadCalls(data) ==
    IF ~IsNull(data.name) THEN <<Call("GetUsers", TRUE)>>
    ELSE IF ~IsNull(data.email)
    THEN <<Call("GetUserByEmail", ValueString(data.email))>>
    ELSE <<>>

\* Read after its calls: the user found, or the error reported.
UserFound(data, c) ==
    IF c.err THEN [user |-> NoUser, err |-> "Client Error"]
    ELSE IF ~IsNull(data.name) THEN searchByName(c.rc, ValueString(data.name))
    ELSE IF ~IsNull(data.email) THEN UserByEmail(c.rc, ValueString(data.email))
    ELSE [user |-> NoUser, err |-> "Not Found"]

UserRead(data, fault) ==
    /\ typeName = "data.slack_user"
    /\ Idle
    /\ provider.client # NoClient
    /\ IF ~ExactlyOneOf(data.name, data.email)
       THEN \* the configuration is rejected when it is validated
            /\ fault = 0
            /\ last' = [op |-> "Read", plan |-> data, prior |-> tf,
                        calls |-> <<>>, err |-> TRUE,
                        diag |-> "Invalid Attribute Combination"]
            /\ UNCHANGED <<tf, ws>>
       ELSE /\ Hits(fault, UserReadCalls(data))
            /\ \E c \in {Run(ws, fault, UserReadCalls(data))} :
                 LET found == UserFound(data, c)
                 IN /\ ws' = c.rc
                    /\ tf' = IF found.err # "" THEN tf
                             ELSE [tracked |-> TRUE, id |-> found.user.id,
                                   name |-> found.user.name,
                                   email |-> found.user.email]
                    /\ last' = [op |-> "Read", plan |-> data, prior |-> tf,
                                calls |-> c.calls, err |-> found.err # "",
                                diag |-> found.err]
    /\ UNCHANGED <<typeName, rc, rg, declared, provider>>

(***************************************************************************)
(* The usergroup data source.                                              *)
(***************************************************************************)
\* "hasID := !data.ID.IsNull() && !data.ID.IsUnknown()", and hasName; the
\* configurations followed hold no unknown value.
hasID(data) == ~IsNull(data.id)
hasName(data) == ~IsNull(data.name)

\* KeysGiven of a Read that only rejects the configuration without a key.
KeysGiven_AtLeastOne(data) == hasID(data) \/ hasName(data)

\* Read, "Validate that exactly one of id or name is provided": the Read
\* goes on to its call.
KeysGiven(data) ==
    /\ ~(~hasID(data) /\ ~hasName(data))
    /\ ~(hasID(data) /\ hasName(data))

UgDataReadCalls(data) == CallIf(KeysGiven(data), Call("GetUserGroups", TRUE))

\* "Match by ID or name", against the groups the enumeration holds.
MatchGroup(data, ug) ==
    /\ ug.exists /\ ug.enabled
    /\ \/ hasID(data) /\ ug.id = ValueString(data.id)
       \/ hasName(data) /\ ug.name = ValueString(data.name)

\* The error Read reports, "" for none.
UgDataError(data, c) ==
    IF ~KeysGiven(data) THEN "Invalid combination of arguments"
    ELSE IF c.err THEN "Client Error"
    ELSE IF ~MatchGroup(data, c.rc) THEN "Not Found"
    ELSE ""

UgDataRead(data, fault) ==
    /\ typeName = "data.slack_usergroup"
    /\ Idle
    /\ provider.client # NoClient
    /\ Hits(fault, UgDataReadCalls(data))
    /\ \E c \in {Run(rg, fault, UgDataReadCalls(data))} :
         LET err == UgDataError(data, c)
         IN /\ rg' = c.rc
            /\ tf' = IF err # "" THEN tf
                     ELSE [tracked |-> TRUE, id |-> c.rc.id,
                           usergroup_id |-> c.rc.id, name |-> c.rc.name,
                           handle |-> c.rc.handle,
                           description |-> c.rc.description,
                           channels |-> SetValue(c.rc.channels),
                           users |-> SetValue(c.rc.users)]
            /\ last' = [op |-> "Read", plan |-> data, prior |-> tf,
                        calls |-> c.calls, err |-> err # "", diag |-> err]
    /\ UNCHANGED <<typeName, rc, ws, declared, provider>>

(***************************************************************************)
(* The plans followed.                                                     *)
(***************************************************************************)
MemberSets == {SetNull} \cup {SetValue(S) : S \in SUBSET Users}

\* The plans of a channel: every attribute configured, the membership and its
\* removal policy varied.
ConvPlans ==
    [name : {"a"}, topic : {"t"}, purpose : {"p"},
     permanent_members : MemberSets,
     is_private : {TRUE}, is_archived : {FALSE},
     action_on_destroy : {"archive"},
     action_on_update_permanent_members : {"kick", "none"},
     adopt_existing_channel : {FALSE}]

UgPlans ==
    [name : {"a", "b"}, handle : {"h"}, description : {"d"},
     channels : {SetValue({})}, users : MemberSets]

Faults == 0..MaxFault

Init ==
    /\ typeName \in {"slack_conversation", "slack_usergroup"}
    /\ rc = NoChannel
    /\ rg = NoGroup
    /\ tf = NoResource
    /\ last = NoRun
    /\ declared = {}
    /\ provider = ResourceProvider
    /\ ws = Directory(<<"alice", "bob">>)

Next ==
    \/ \E plan \in ConvPlans, fault \in Faults : ConvCreate(plan, fault)
    \/ \E fault \in Faults : ConvRead(fault)
    \/ \E plan \in ConvPlans, fault \in Faults : ConvUpdate(plan, fault)
    \/ \E fault \in Faults : ConvDelete(fault)
    \/ \E u \in Users : ExternalJoin(u)
    \/ \E plan \in UgPlans, fault \in Faults : UgCreate(plan, fault)
    \/ \E fault \in Faults : UgRead(fault)
    \/ \E plan \in UgPlans, fault \in Faults : UgUpdate(plan, fault)
    \/ \E fault \in Faults : UgDelete(fault)
    \/ Return

Spec == Init /\ [][Next]_vars

(***************************************************************************)
(* The life cycle of a resource: the plans vary the flags of the channel   *)
(* and the policy of Delete, the workspace may hold a channel of the       *)
(* planned name before Create, and another actor may delete the channel or *)
(* disable the usergroup.                                                  *)
(***************************************************************************)
\* The other user of the workspace that owns the channel found there.
OtherUser == TokenUser + 1

\* A channel of the planned name that exists before the resource is created.
ExistingChannel(archived) ==
    [exists |-> TRUE, id |-> ChannelId, name |-> "a", topic |-> "",
     purpose |-> "", archived |-> archived, private |-> TRUE,
     creator |-> OtherUser, members |-> {OtherUser}]

LifeMemberSets == {SetNull, SetValue({OtherUser})}

LifeConvPlans ==
    [name : {"a"}, topic : {"t"}, purpose : {"p"},
     permanent_members : LifeMemberSets,
     is_private : BOOLEAN, is_archived : BOOLEAN,
     action_on_destroy : {"archive", "none"},
     action_on_update_permanent_members : {"kick"},
     adopt_existing_channel : BOOLEAN]

LifeUgPlans ==
    [name : {"a"}, handle : {"h"}, description : {"d"},
     channels : {SetValue({})}, users : LifeMemberSets]

InitLife ==
    /\ typeName \in {"slack_conversation", "slack_usergroup"}
    /\ rc \in {NoChannel} \cup
             (IF typeName = "slack_conversation"
              THEN {ExistingChannel(a) : a \in BOOLEAN} ELSE {})
    /\ rg = NoGroup
    /\ tf = NoResource
    /\ last = NoRun
    /\ declared = {}
    /\ provider = ResourceProvider
    /\ ws = Directory(<<"alice", "bob">>)

NextLife ==
    \/ \E plan \in LifeConvPlans, fault \in Faults : ConvCreate(plan, fault)
    \/ \E fault \in Faults : ConvRead(fault)
    \/ \E plan \in LifeConvPlans, fault \in Faults : ConvUpdate(plan, fault)
    \/ \E fault \in Faults : ConvDelete(fault)
    \/ ExternalDelete
    \/ \E plan \in LifeUgPlans, fault \in Faults : UgCreate(plan, fault)
    \/ \E fault \in Faults : UgRead(fault)
    \/ \E fault \in Faults : UgDelete(fault)
    \/ ExternalDisable
    \/ Return

SpecLife == InitLife /\ [][NextLife]_vars

(***************************************************************************)
(* The attributes of a usergroup: the plans vary the name, the handle, the *)
(* description (also the empty one), the channels (also unset) and the     *)
(* users, and the usergroup may be imported by its ID.                     *)
(***************************************************************************)
GroupPlans ==
    [name : {"a", "b"}, handle : {"h", "k"}, description : {"d", ""},
     channels : {SetNull, SetValue({}), SetValue({ChannelId})},
     users : {SetNull, SetValue({OtherUser})}]

InitGroup ==
    /\ typeName = "slack_usergroup"
    /\ rc = NoChannel
    /\ rg = NoGroup
    /\ tf = NoResource
    /\ last = NoRun
    /\ declared = {}
    /\ provider = ResourceProvider
    /\ ws = Directory(<<"alice", "bob">>)

NextGroup ==
    \/ \E plan \in GroupPlans, fault \in Faults : UgCreate(plan, fault)
    \/ \E fault \in Faults : UgRead(fault)
    \/ \E plan \in GroupPlans, fault \in Faults : UgUpdate(plan, fault)
    \/ \E id \in {GroupId, "S9"} : UgImportState(id)
    \/ Return

SpecGroup == InitGroup /\ [][NextGroup]_vars

(***************************************************************************)
(* A third specification follows the fields of one channel: plans differ   *)
(* in the name, the topic, the purpose, the archived flag and the members, *)
(* and another actor may archive or unarchive the channel.                 *)
(***************************************************************************)
FieldPlans ==
    [name : {"a", "b"}, topic : {"t", ""}, purpose : {"p", ""},
     permanent_members : LifeMemberSets,
     is_private : {TRUE}, is_archived : BOOLEAN,
     action_on_destroy : {"archive"},
     action_on_update_permanent_members : {"kick"},
     adopt_existing_channel : {FALSE}]

InitFields ==
    /\ typeName = "slack_conversation"
    /\ rc = NoChannel
    /\ rg = NoGroup
    /\ tf = NoResource
    /\ last = NoRun
    /\ declared = {}
    /\ provider = ResourceProvider
    /\ ws = Directory(<<"alice", "bob">>)

NextFields ==
    \/ \E plan \in FieldPlans, fault \in Faults : ConvCreate(plan, fault)
    \/ \E fault \in Faults : ConvRead(fault)
    \/ \E plan \in FieldPlans, fault \in Faults : ConvUpdate(plan, fault)
    \/ \E archived \in BOOLEAN : ExternalArchive(archived)
    \/ Return

SpecFields == InitFields /\ [][NextFields]_vars

(***************************************************************************)
(* The specification of the fields with the next reconciliation pass after *)
(* an interrupted run.                                                     *)
(***************************************************************************)
NextReapply ==
    \/ \E plan \in FieldPlans, fault \in Faults : ConvCreate(plan, fault)
    \/ \E fault \in Faults : ConvRead(fault)
    \/ \E plan \in FieldPlans, fault \in Faults : ConvUpdate(plan, fault)
    \/ ConvReapply
    \/ Return

SpecReapply == InitFields /\ [][NextReapply]_vars

(***************************************************************************)
(* A fourth specification has another actor change the remote in the       *)
(* middle of an Update, between its mutations and its terminal read.       *)
(***************************************************************************)
RaceConvPlans == {plan \in FieldPlans : plan.name = "a" /\ plan.purpose = "p"}

ChannelMeddles ==
    <<[api |-> "RenameConversation", arg |-> "z"],
     [api |-> "SetTopicOfConversation", arg |-> "x"],
     [api |-> "SetPurposeOfConversation", arg |-> "y"],
     [api |-> "ArchiveConversation", arg |-> ChannelId],
     [api |-> "UnArchiveConversation", arg |-> ChannelId],
     [api |-> "InviteUsersToConversation", arg |-> NumUsers],
     [api |-> "KickUserFromConversation", arg |-> OtherUser]>>

GroupMeddles ==
    <<[api |-> "UpdateUserGroup",
      arg |-> [name |-> "z", handle |-> "y", description |-> "x",
               channels |-> SetValue({ChannelId})]],
     [api |-> "UpdateUserGroupMembers", arg |-> <<NumUsers>>]>>

InitRace ==
    /\ typeName \in {"slack_conversation", "slack_usergroup"}
    /\ rc = NoChannel
    /\ rg = NoGroup
    /\ tf = NoResource
    /\ last = NoRun
    /\ declared = {}
    /\ provider = ResourceProvider
    /\ ws = Directory(<<"alice", "bob">>)

NextRace ==
    \/ \E plan \in RaceConvPlans, fault \in Faults : ConvCreate(plan, fault)
    \/ \E plan \in RaceConvPlans, fault \in Faults : ConvUpdate(plan, fault)
    \/ \E plan \in RaceConvPlans, i \in DOMAIN ChannelMeddles :
          ConvUpdateRaced(plan, ChannelMeddles[i])
    \/ \E plan \in LifeUgPlans, fault \in Faults : UgCreate(plan, fault)
    \/ \E plan \in LifeUgPlans, fault \in Faults : UgUpdate(plan, fault)
    \/ \E plan \in LifeUgPlans, i \in DOMAIN GroupMeddles :
          UgUpdateRaced(plan, GroupMeddles[i])
    \/ Return

SpecRace == InitRace /\ [][NextRace]_vars

(***************************************************************************)
(* The look-ups: the provider is configured with a token of the            *)
(* configuration or of the environment, then the data sources read.        *)
(***************************************************************************)
\* Most users a workspace of the look-ups has.
MaxDirectory == 3

\* Tokens tried: one of each accepted prefix, a prefix alone, and tokens that
\* miss the prefix by a character; "" is the empty token.
TokenSamples ==
    {"", "xoxb-1", "xoxp-1", "xoxa-1", "xoxe-1", "xoxr-1", "xapp-1",
     "xoxb-", "xoxb", "xoxc-1", "xapp1"}

\* The workspaces: users named alice or bob, in any number and order.
Directories ==
    UNION {[1..n -> {"alice", "bob"}] : n \in 0..MaxDirectory}

UserConfigs == [name : {Null, "alice", "bob", "carol"}, email : {Null, "e1", "e9"}]

\* A usergroup the workspace holds.
ExistingGroup ==
    [exists |-> TRUE, id |-> GroupId, name |-> "a", handle |-> "h",
     description |-> "d", channels |-> {}, users |-> {OtherUser},
     enabled |-> TRUE]

UgDataConfigs == [id : {Null, GroupId, "S9"}, name : {Null, "a", "zz"}]

InitLookup ==
    /\ typeName \in {"data.slack_user", "data.slack_usergroup"}
    /\ rc = NoChannel
    /\ rg \in IF typeName = "data.slack_usergroup"
              THEN {NoGroup, ExistingGroup} ELSE {NoGroup}
    /\ ws \in IF typeName = "data.slack_user"
              THEN {Directory(names) : names \in Directories}
              ELSE {Directory(<<"alice", "bob">>)}
    /\ tf = NoResource
    /\ last = NoRun
    /\ declared = {}
    /\ provider = NotConfigured

NextLookup ==
    \/ \E token \in TokenSamples \cup {Null}, env \in TokenSamples :
          ProviderConfigure([token |-> token], env)
    \/ \E data \in UserConfigs, fault \in Faults : UserRead(data, fault)
    \/ \E data \in UgDataConfigs, fault \in Faults : UgDataRead(data, fault)
    \/ Return

SpecLookup == InitLookup /\ [][NextLookup]_vars

(***************************************************************************)
(* Properties.  They read the last handler run: its calls, plan, prior     *)
(* state and outcome, and the remote and tracked state it left.            *)
(***************************************************************************)
IsConv == typeName = "slack_conversation"
IsUg == typeName = "slack_usergroup"

CallsTo(api) == {i \in 1..Len(last.calls) : last.calls[i].api = api}
ArgsOf(api) == {last.calls[i].arg : i \in CallsTo(api)}
Invited == ArgsOf("InviteUsersToConversation")
Kicked == ArgsOf("KickUserFromConversation")
NoCallFailed == \A i \in 1..Len(last.calls) : last.calls[i].err = ""

ReadApis == {"GetConversationInfo", "GetUsersInConversation", "GetUserGroups"}
OnlyReads == \A i \in 1..Len(last.calls) : last.calls[i].api \in ReadApis

\* The plan of the last run equals its prior state in every attribute.
PlanEqualsPrior ==
    /\ last.prior.tracked
    /\ \A a \in DOMAIN last.plan : last.plan[a] = last.prior[a]

\* C1: a channel Create whose permanent_members holds the channel's creator
\* issues no invite for the creator, and, when no call fails, exactly one invite
\* for each other listed member.
C1_CreatorNeverInvited ==
    (IsConv /\ last.op = "Create" /\ rc.exists
        /\ rc.creator \in last.plan.permanent_members.elems)
    => /\ rc.creator \notin Invited
       /\ NoCallFailed =>
            /\ Invited = last.plan.permanent_members.elems \ {rc.creator}
            /\ Cardinality(CallsTo("InviteUsersToConversation"))
                 = Cardinality(Invited)

\* C2: the permanent_members recorded in state never holds the channel's
\* creator, and no kick is issued for the creator.
C2_CreatorNeverTracked ==
    IsConv =>
      /\ tf.tracked => tf.creator \notin tf.permanent_members.elems
      /\ rc.exists => rc.creator \notin Kicked

\* C3: a channel Create that succeeds ends with a read of the channel (after
\* its mutation calls), and the record it sets holds what the remote holds:
\* topic, purpose, archived flag, and the members but the creator.
C3_CreateEndsWithRead ==
    (IsConv /\ last.op = "Create" /\ ~last.err)
    => /\ Len(last.calls) > 0
       /\ last.calls[Len(last.calls)].api \in ReadApis
       /\ \A i \in 1..Len(last.calls), j \in 1..Len(last.calls) :
            (last.calls[i].api \in ReadApis /\ last.calls[j].api \notin ReadApis)
            => j < i
       /\ ValueString(tf.topic) = rc.topic
       /\ ValueString(tf.purpose) = rc.purpose
       /\ tf.is_archived = rc.archived
       /\ ~tf.permanent_members.null
            => tf.permanent_members.elems = rc.members \ {rc.creator}

\* C4: an Update (of a channel or of a usergroup) whose plan equals the prior
\* state in every attribute issues read calls only.
C4_UpdateIdempotent ==
    (last.op = "Update" /\ PlanEqualsPrior) => OnlyReads

C4_Witness ==
    /\ IsConv /\ last.op = "Update" /\ PlanEqualsPrior /\ ~last.err
    /\ last.plan.permanent_members.elems # {}
    /\ Len(last.calls) = 2

\* C5: a channel Update with planned members D and prior-state members O, no
\* call failing, invites exactly D \ O, once each, and kicks exactly O \ D under
\* the policy "kick" and nobody under "none".
C5_MembershipDiff ==
    (IsConv /\ last.op = "Update" /\ NoCallFailed
        /\ ~last.plan.permanent_members.null)
    => LET D == last.plan.permanent_members.elems
           O == last.prior.permanent_members.elems
           policy == last.plan.action_on_update_permanent_members
       IN /\ Invited = D \ O
          /\ Cardinality(CallsTo("InviteUsersToConversation")) = Cardinality(D \ O)
          /\ Kicked = IF policy = "kick" THEN O \ D ELSE {}
          /\ Cardinality(CallsTo("KickUserFromConversation")) = Cardinality(Kicked)

C5_Witness ==
    /\ IsConv /\ last.op = "Update" /\ NoCallFailed
    /\ ~last.plan.permanent_members.null
    /\ ~last.prior.permanent_members.null
    /\ last.plan.action_on_update_permanent_members = "kick"
    /\ Invited # {} /\ Kicked # {}

\* C6: a channel Update under the policy "none" that drops a member m from the
\* plan leaves m in the remote channel and records a permanent_members
\* without m.
C6_PolicyNoneDropsLocally ==
    (IsConv /\ last.op = "Update" /\ ~last.err
        /\ last.plan.action_on_update_permanent_members = "none")
    => \A m \in last.prior.permanent_members.elems
                    \ last.plan.permanent_members.elems :
          /\ m \in rc.members
          /\ m \notin tf.permanent_members.elems

\* C7: no user is kicked who was never in a declared permanent_members set.
C7_NeverKicksUndeclared ==
    IsConv => Kicked \subseteq declared

\* C8: a channel Update whose plan leaves permanent_members unset issues no
\* invite and no kick, whatever the prior state's permanent_members is (stated
\* for the prior states that do not hold the creator).
C8_UnsetMembersNoCalls ==
    (IsConv /\ last.op = "Update" /\ last.plan.permanent_members.null
        /\ last.prior.creator \notin last.prior.permanent_members.elems)
    => Invited = {} /\ Kicked = {}

\* The calls of the last usergroup run that replace the members.
Replaces == CallsTo("UpdateUserGroupMembers")
\* The run got as far as its member step: no earlier call failed.
ReachedMembers ==
    \A i \in 1..Len(last.calls) :
        last.calls[i].api \in {"CreateUserGroup", "UpdateUserGroup"}
        => last.calls[i].err = ""

C10_FullReplace ==
    (IsUg /\ last.op = "Update" /\ ~last.err
        /\ ~last.plan.users.null /\ last.plan.users # last.prior.users)
    => LET D == last.plan.users.elems
       IN /\ Cardinality(Replaces) = 1
          /\ \A i \in Replaces :
                /\ Range(last.calls[i].arg) = D
                /\ Len(last.calls[i].arg) = Cardinality(D)
          /\ rg.users = D
          /\ tf.users = SetValue(D)

C10_Witness ==
    /\ IsUg /\ last.op = "Update" /\ ~last.err
    /\ ~last.plan.users.null /\ ~last.prior.users.null
    /\ last.plan.users.elems \ last.prior.users.elems # {}
    /\ last.prior.users.elems \ last.plan.users.elems # {}
    /\ Cardinality(Replaces) = 1

\* The last Read found the target missing: the channel info call answered
\* "channel_not_found", or the enumeration of the usergroups came back without
\* a group of the tracked ID.
ReadFoundMissing ==
    IF IsConv THEN last.calls[1].err = errChannelNotFound
    ELSE last.calls[1].err = "" /\ ~FindGroup(rg, last.prior.id)

\* A call of the last Read failed with another error.
ReadCallFailed ==
    \E i \in 1..Len(last.calls) :
        /\ last.calls[i].err # ""
        /\ ~(IsConv /\ i = 1 /\ last.calls[i].err = errChannelNotFound)

\* C11: a Read that finds the target missing removes the resource from the
\* tracked state and reports no error; a Read one of whose calls fails with
\* any other error reports an error and leaves the tracked state as it was.
C11_ReadAbsence ==
    last.op = "Read"
    => /\ ReadFoundMissing => (~tf.tracked /\ ~last.err)
       /\ ReadCallFailed => (last.err /\ tf = last.prior)
       /\ (~ReadFoundMissing /\ ~ReadCallFailed) => (tf.tracked /\ ~last.err)

C11_Witness ==
    /\ IsConv /\ last.op = "Read" /\ ReadFoundMissing
    /\ last.prior.tracked /\ ~tf.tracked /\ ~last.err

\* C12: a channel Delete under the policy "none" issues no remote call; under
\* "archive" it issues one archive call and no other call.
C12_DeleteCallCount ==
    (IsConv /\ last.op = "Delete")
    => IF last.prior.action_on_destroy = "none"
       THEN last.calls = <<>>
       ELSE /\ Len(last.calls) = 1
            /\ last.calls[1].api = "ArchiveConversation"
            /\ last.calls[1].arg = last.prior.id

C12_Witness ==
    /\ IsConv /\ last.op = "Delete"
    /\ last.prior.action_on_destroy = "none"
    /\ last.calls = <<>> /\ ~last.err /\ ~tf.tracked

\* C13: a channel Delete under the policy "archive" reports no error, and the
\* resource is gone from the state, when the archive call succeeds or answers
\* "already_archived" or "channel_not_found"; with any other answer Delete
\* reports an error.
C13_DeleteBenignErrors ==
    (IsConv /\ last.op = "Delete" /\ last.prior.action_on_destroy = "archive"
        /\ Len(last.calls) = 1)
    => IF last.calls[1].err \in {"", errAlreadyArchived, errChannelNotFound}
       THEN ~last.err /\ ~tf.tracked
       ELSE last.err /\ tf = last.prior

C13_Witness ==
    /\ IsConv /\ last.op = "Delete" /\ Len(last.calls) = 1
    /\ last.calls[1].err = errAlreadyArchived
    /\ rc.exists /\ rc.archived
    /\ ~last.err /\ ~tf.tracked

\* C14: a usergroup Delete whose disable call answers "already_disabled"
\* reports no error, and the resource is gone from the state.
C14_DeleteAlreadyDisabled ==
    (IsUg /\ last.op = "Delete" /\ Len(last.calls) = 1
        /\ last.calls[1].err = "already_disabled")
    => ~last.err /\ ~tf.tracked

\* No call of the run that follows failed for a reason of the transport.
NoTransportError ==
    \A i \in 1..Len(last'.calls) : last'.calls[i].err # errTransport

\* C18: a channel Create that finds a remote channel of the planned name,
\* no call failing in the transport: with adopt_existing_channel = true it
\* reports no error, records the ID of that channel and leaves it not
\* archived; with adopt_existing_channel = false it reports an error.
C18_Adoption ==
    [][(IsConv /\ rc.exists /\ last'.op = "Create" /\ NoTransportError
          /\ rc.name = ValueString(last'.plan.name))
       => IF last'.plan.adopt_existing_channel
          THEN /\ ~last'.err
               /\ tf'.tracked /\ tf'.id = rc.id
               /\ rc'.exists /\ ~rc'.archived
          ELSE last'.err /\ ~tf'.tracked]_vars

\* C19: a channel Create that succeeds leaves the remote channel archived
\* exactly if the plan's is_archived is true, and records the plan's
\* is_archived.
C19_CreateArchived ==
    (IsConv /\ last.op = "Create" /\ ~last.err)
    => /\ rc.archived = last.plan.is_archived
       /\ tf.is_archived = last.plan.is_archived

\* The calls an Update of a channel may issue; none of them sets the
\* visibility.
UpdateApis ==
    {"RenameConversation", "SetTopicOfConversation", "SetPurposeOfConversation",
     "ArchiveConversation", "UnArchiveConversation",
     "InviteUsersToConversation", "KickUserFromConversation",
     "GetConversationInfo", "GetUsersInConversation"}

\* C20: an Update of a channel issues no call that sets the visibility, and
\* when it succeeds the is_private it records is the visibility of the remote
\* channel, also when the plan's is_private differs from the prior state.
C20_VisibilityImmutable ==
    (IsConv /\ last.op = "Update")
    => /\ \A i \in 1..Len(last.calls) : last.calls[i].api \in UpdateApis
       /\ (~last.err /\ rc.exists) => tf.is_private = rc.private

IsUserData == typeName = "data.slack_user"
IsUgData == typeName = "data.slack_usergroup"

\* The last run is a look-up of a user by the name alone whose listing of
\* the users did not fail.
LookupByName ==
    /\ IsUserData /\ last.op = "Read"
    /\ last.plan.name # Null /\ last.plan.email = Null
    /\ Len(last.calls) = 1 /\ last.calls[1].err = ""

\* The users of the workspace whose name is the name looked up.
NameMatches == {i \in 1..Len(ws) : ws[i].name = last.plan.name}

\* C15: a look-up of a user by name returns the user of that name when there
\* is exactly one; fails with "no results found" when there is none; fails
\* with "multiple results found", returning no user, when there are several.
C15_UniqueNameMatch ==
    LookupByName
    => /\ Cardinality(NameMatches) = 1
            => /\ ~last.err /\ tf.tracked
               /\ tf.name = last.plan.name
               /\ \A i \in NameMatches : tf.id = ws[i].id
       /\ Cardinality(NameMatches) = 0
            => last.err /\ last.diag = "no results found" /\ tf = last.prior
       /\ Cardinality(NameMatches) > 1
            => last.err /\ last.diag = "multiple results found"
               /\ tf = last.prior

C15_Witness ==
    /\ LookupByName /\ Cardinality(NameMatches) > 1
    /\ last.err /\ last.diag = "multiple results found"

\* The alternative keys of the look-up of the last run that are supplied.
KeysSupplied ==
    IF IsUserData
    THEN {k \in {"name", "email"} : last.plan[k] # Null}
    ELSE {k \in {"id", "name"} : last.plan[k] # Null}

\* C16: a look-up of a user (keys name, email) or of a usergroup (keys id,
\* name) that supplies none of its keys, or both, fails with a configuration
\* error and issues no remote call.
C16_KeyValidation ==
    ((IsUserData \/ IsUgData) /\ last.op = "Read"
        /\ Cardinality(KeysSupplied) # 1)
    => /\ last.err
       /\ last.diag \in {"Invalid Attribute Combination",
                          "Invalid combination of arguments"}
       /\ last.calls = <<>>
       /\ tf = last.prior

C16_Witness ==
    /\ IsUgData /\ last.op = "Read"
    /\ Cardinality(KeysSupplied) = 2
    /\ last.err /\ last.calls = <<>>

\* The token samples that are not empty and start with an accepted prefix.
AcceptedSamples ==
    {"xoxb-1", "xoxp-1", "xoxa-1", "xoxe-1", "xoxr-1", "xapp-1", "xoxb-"}

\* The configured token when one is set, otherwise the one of the environment.
EffectiveToken ==
    IF provider.token # Null THEN provider.token ELSE provider.env

\* C17: once the provider is configured, it holds a client exactly if the
\* effective token is not empty and starts with an accepted prefix, and the
\* client is made of that token; otherwise Configure reported an error.  No
\* remote call is issued without a client.
C17_TokenValidation ==
    /\ provider.configured
         => /\ provider.client # NoClient <=> EffectiveToken \in AcceptedSamples
            /\ provider.client # NoClient
                 => provider.client = EffectiveToken /\ provider.err = ""
            /\ provider.client = NoClient => provider.err # ""
    /\ ~provider.configured => provider.client = NoClient
    /\ last.calls # <<>> => provider.client # NoClient

C17_Witness ==
    /\ provider.configured
    /\ provider.token = Null /\ provider.env \in AcceptedSamples
    /\ provider.client = provider.env
    /\ IsUserData /\ last.op = "Read" /\ last.calls # <<>>

\* The remote usergroup, attribute by attribute, as a state of the resource.
GroupView ==
    [tracked |-> TRUE, id |-> rg.id, name |-> rg.name, handle |-> rg.handle,
     description |-> rg.description, channels |-> SetValue(rg.channels),
     users |-> SetValue(rg.users)]

\* The last run is the Read that follows an import, and it found the group.
ReadOfImport ==
    /\ IsUg /\ last.op = "Read"
    /\ last.prior = UgImported(last.prior.id)
    /\ ~last.err /\ tf.tracked

\* C21: the state a usergroup Create records and the state an import by the
\* ID followed by a Read gives are both, attribute by attribute (id, name,
\* handle, description, channels, users), the values the remote group holds:
\* they are equal when the remote group is not changed in between.
C21_ImportRoundTrip ==
    /\ (IsUg /\ last.op = "Create" /\ ~last.err) => tf = GroupView
    /\ ReadOfImport => tf = GroupView

C21_Witness ==
    /\ ReadOfImport
    /\ tf = GroupView
    /\ tf.users.elems # {} /\ tf.channels.elems # {}

GroupFieldsDiffer ==
    \E a \in {"name", "handle", "description", "channels"} :
        last.plan[a] # last.prior[a]

\* The last run is a usergroup Update that changes the users and nothing else.
UsersAloneChanged ==
    /\ IsUg /\ last.op = "Update"
    /\ ~GroupFieldsDiffer
    /\ last.plan.users # last.prior.users

UpdateCallIffFieldsDiffer ==
    (IsUg /\ last.op = "Update")
    => (CallsTo("UpdateUserGroup") # {} <=> GroupFieldsDiffer)

\* C23 as stated: a usergroup Update issues the usergroup-update call if and
\* only if one of name, handle, description, channels differs between plan and
\* prior state, and every change of users alone issues the member-replace
\* call and no usergroup-update call.
C23_UsersAloneReplaces ==
    /\ UpdateCallIffFieldsDiffer
    /\ (UsersAloneChanged /\ last.plan.users.elems # last.prior.users.elems)
        => /\ CallsTo("UpdateUserGroupMembers") # {}
           /\ CallsTo("UpdateUserGroup") = {}

\* C23: a usergroup Update issues the usergroup-update call if and only if one
\* of name, handle, description, channels differs between plan and prior state;
\* a change of users alone to a set value issues one member-replace call and no
\* usergroup-update call, and a change of users alone to unset issues neither.
C23_UpdateCallGuard ==
    /\ UpdateCallIffFieldsDiffer
    /\ (UsersAloneChanged /\ ~last.plan.users.null)
        => /\ Cardinality(CallsTo("UpdateUserGroupMembers")) = 1
           /\ CallsTo("UpdateUserGroup") = {}
    /\ (UsersAloneChanged /\ last.plan.users.null)
        => OnlyReads

C23_Witness ==
    /\ UsersAloneChanged /\ ~last.plan.users.null /\ ~last.err
    /\ CallsTo("UpdateUserGroupMembers") # {}
    /\ CallsTo("UpdateUserGroup") = {}

\* C30: after a usergroup Update that reports no error, the remote description
\* and handle, and the description and handle recorded in state, are the
\* planned ones, also when the plan turns a description into the empty string.
C30_AppliesPlannedChanges ==
    (IsUg /\ last.op = "Update" /\ ~last.err)
    => /\ rg.description = ValueString(last.plan.description)
       /\ tf.description = last.plan.description
       /\ rg.handle = ValueString(last.plan.handle)
       /\ tf.handle = last.plan.handle

ArchiveApis == {"ArchiveConversation", "UnArchiveConversation"}

\* The answer the Update takes as done already: "already_archived" to the
\* archive call, "not_archived" to the unarchive call.
BenignAnswer(call) ==
    \/ call.api = "ArchiveConversation" /\ call.err = errAlreadyArchived
    \/ call.api = "UnArchiveConversation" /\ call.err = errNotArchived

\* No call of the last run but the i-th got an error.
NoOtherCallFailed(i) ==
    \A j \in 1..Len(last.calls) : j # i => last.calls[j].err = ""

\* C24: a channel Update issues an archive call only when the planned archived
\* flag is true and differs from the prior state, an unarchive call only when
\* it is false and differs; after the answer "already_archived" to the archive
\* call or "not_archived" to the unarchive call the Update goes on (it invites
\* the planned members the prior state lacks and ends with the terminal read,
\* without error when no other call fails); any other error of these calls is
\* the last call of the Update, which then reports an error.
C24_ArchiveOnlyIfChanged ==
    (IsConv /\ last.op = "Update")
    => /\ CallsTo("ArchiveConversation") # {}
          => last.plan.is_archived /\ ~last.prior.is_archived
       /\ CallsTo("UnArchiveConversation") # {}
          => ~last.plan.is_archived /\ last.prior.is_archived
       /\ \A i \in 1..Len(last.calls) :
            /\ (BenignAnswer(last.calls[i]) /\ NoOtherCallFailed(i))
               => /\ ~last.err
                  /\ i < Len(last.calls)
                  /\ last.calls[Len(last.calls)].api \in ReadApis
                  /\ Invited = last.plan.permanent_members.elems
                                  \ last.prior.permanent_members.elems
                  /\ tf.is_archived = last.plan.is_archived
            /\ (last.calls[i].api \in ArchiveApis /\ last.calls[i].err # ""
                  /\ ~BenignAnswer(last.calls[i]))
               => /\ last.err
                  /\ i = Len(last.calls)
                  /\ tf = last.prior

C24_Witness ==
    /\ IsConv /\ last.op = "Update" /\ ~last.err
    /\ \E i \in CallsTo("ArchiveConversation") :
          last.calls[i].err = errAlreadyArchived
    /\ Invited # {}
    /\ last.calls[Len(last.calls)].api = "GetUsersInConversation"

\* C25 as stated: a channel Update issues a set-topic (set-purpose) call only
\* if the planned topic (purpose) differs from the prior state and is not
\* empty.
C25_NeverSetsEmpty ==
    (IsConv /\ last.op = "Update")
    => /\ CallsTo("SetTopicOfConversation") # {}
          => /\ last.plan.topic # last.prior.topic
             /\ ValueString(last.plan.topic) # ""
       /\ CallsTo("SetPurposeOfConversation") # {}
          => /\ last.plan.purpose # last.prior.purpose
             /\ ValueString(last.plan.purpose) # ""

\* C26: when a channel Create has created the remote channel and a later
\* invite fails, the Create reports an error, the failed invite is its last
\* call, and the record it leaves holds the ID of the created channel.
C26_PartialStateTracked ==
    (IsConv /\ last.op = "Create"
       /\ \E i \in CallsTo("InviteUsersToConversation") : last.calls[i].err # "")
    => /\ last.err
       /\ last.calls[Len(last.calls)].err # ""
       /\ rc.exists
       /\ tf.tracked /\ tf.id = rc.id

\* An answer no handler takes as success: an error other than
\* "already_archived" or "not_archived" to an archive or unarchive call and
\* other than "channel_not_found" or "already_disabled" to a call of Delete.
NonBenign(op, call) ==
    /\ call.err # ""
    /\ ~(call.api \in ArchiveApis
           /\ call.err \in {errAlreadyArchived, errNotArchived})
    /\ ~(op = "Delete" /\ call.err \in {errChannelNotFound, "already_disabled"})

\* C28: in every Create, Update and Delete of the channel and of the
\* usergroup, a call that fails with a non-benign error is the last call of
\* the operation (no retry, no call undoing an earlier one), the operation
\* reports an error, and the tracked state is the one before the operation.
C28_FailFast ==
    last.op \in {"Create", "Update", "Delete"}
    => \A i \in 1..Len(last.calls) :
          NonBenign(last.op, last.calls[i])
          => /\ i = Len(last.calls)
             /\ last.err
             /\ tf = last.prior

C28_Witness ==
    /\ IsUg /\ last.op = "Update" /\ last.err
    /\ Len(last.calls) = 2
    /\ last.calls[1].api = "UpdateUserGroup" /\ last.calls[1].err = ""
    /\ last.calls[2].api = "UpdateUserGroupMembers" /\ last.calls[2].err # ""
    /\ rg.name # tf.name
    /\ tf = last.prior

\* C29: in a channel Update and in a usergroup Update no mutation call follows
\* a read call, an Update without error ends with the read, and the name,
\* topic, purpose, archived flag and members (channel; the members other than
\* the creator, when the plan manages them) or the name, handle, description,
\* channels and users (usergroup) it writes to the state are the remote's at
\* that read, a change another actor made just before the read included.
C29_TerminalRead ==
    last.op = "Update"
    => /\ \A i, j \in 1..Len(last.calls) :
            (i < j /\ last.calls[i].api \in ReadApis)
            => last.calls[j].api \in ReadApis
       /\ ~last.err
          => /\ last.calls[Len(last.calls)].api \in ReadApis
             /\ IsConv
                => /\ tf.name = rc.name
                   /\ tf.topic = rc.topic
                   /\ tf.purpose = rc.purpose
                   /\ tf.is_archived = rc.archived
                   /\ ~last.plan.permanent_members.null
                      => tf.permanent_members.elems = rc.members \ {rc.creator}
             /\ IsUg
                => /\ tf.name = rg.name
                   /\ tf.handle = rg.handle
                   /\ tf.description = rg.description
                   /\ tf.channels.elems = rg.channels
                   /\ tf.users.elems = rg.users

\* An Update set the planned topic, another actor changed it before the
\* terminal read, and the state holds the other actor's topic.
C29_Witness ==
    /\ IsConv /\ last.op = "Update" /\ ~last.err
    /\ ArgsOf("SetTopicOfConversation") = {last.plan.topic}
    /\ rc.topic # last.plan.topic
    /\ tf.topic = rc.topic
    /\ last.calls[Len(last.calls)].api \in ReadApis

\* The last run is a reconciliation pass after an interrupted run.
Reapplied == "before" \in DOMAIN last

\* The remote channel and the tracked members are as the plan of the last run
\* says.
Converged ==
    /\ ~last.err
    /\ rc.exists
    /\ rc.name = last.plan.name
    /\ rc.topic = last.plan.topic
    /\ rc.purpose = last.plan.purpose
    /\ rc.archived = last.plan.is_archived
    /\ tf.tracked
    /\ tf.permanent_members.elems = last.plan.permanent_members.elems

\* C27: after a channel Create or Update that a failing call interrupted once
\* it had changed the remote, the next pass (Read, then the same plan applied
\* again, no call failing) either succeeds with the remote name, topic,
\* purpose, archived flag and the tracked members as planned, or at least
\* changes the remote or the tracked state: a pass that fails and changes
\* nothing repeats itself for ever, so that re-applying never succeeds.
C27_Converges ==
    Reapplied
    => \/ Converged
       \/ rc # last.before
       \/ tf # last.prior

====
